---- MODULE Spec2Model ----
(***************************************************************************)
(* Model of the Pokemon TCG front end's session client:                    *)
(*   frontend/src/services/PokemonWebSocketService.ts                      *)
(* One PokemonWebSocketService instance, the browser WebSocket objects it  *)
(* creates, and the timers it arms (10 s connection timeout, reconnect     *)
(* back-off).  Every handler of the service is an operator over a record   *)
(* of the state it can touch, so that the handlers the browser runs back   *)
(* to back in one task (error, then close) compose into one action.        *)
(* The handlers subscribed through on() run inside the step that emits     *)
(* their event; among them are the handlers of the hook                    *)
(*   frontend/src/hooks/usePokemonGame.tsx                                 *)
(* whose state cells are the record hook.                                  *)
(*   Spec          the service alone, with its timers                      *)
(*   SendSpec      the service and its five sending methods                *)
(*   DispatchSpec  subscribers registering handlers, frames dispatched     *)
(*   HookSpec      the mounted hook on the service                         *)
(*   LogSpec       the mounted hook receiving more entries than the log    *)
(*                 keeps                                                   *)
(*   TurnSpec      the backend-integrated board's Simulate AI Turn button  *)
(*   StatusSpec    the hook receiving messages named like connection events*)
(*   OffSpec       subscribers of which one unsubscribes when invoked      *)
(*   BoardSpec     the standalone board,                                   *)
(*                 frontend/src/components/PokemonGameBoard.tsx            *)
(***************************************************************************)
EXTENDS Integers, Sequences, FiniteSets, TLC

\* ---------------------------------------------------------------- bounds
\* Socket objects tracked at once.  A socket is tracked from its creation
\* until it is CLOSED and its 10 s timer has fired; its slot is then reused.
MaxSockets == 2
\* Timers pending at once (connection timeouts and reconnect timers).
MaxTimers == 2
\* Handlers registered through on() at once.
MaxRegistrations == 3
\* Log entries after which the exploration of the hook stops.
MaxLogged == 4
\* Log entries after which the exploration of the long log stops.
MaxAppends == 23
\* Unanswered simulate_ai_turn requests a user is followed up to.
MaxOutstanding == 2
\* Log entries after which the exploration of the AI turns stops.
MaxTurnLogged == 8
\* Actions the standalone board's user is followed through.
MaxBoardMoves == 4
\* Cards the standalone board's user draws.
MaxDraws == 5

\* ------------------------------------------------------ program constants
maxReconnectAttempts == 5
ReconnectStepMs == 2000
ConnectTimeoutMs == 10000
NormalClosure == 1000

NULL == 0
Slots == 1..MaxSockets

VARIABLES
    ws,                \* this.ws: NULL or the slot of the socket it refers to
    isConnecting,      \* this.isConnecting
    reconnectAttempts, \* this.reconnectAttempts
    readyState,        \* WebSocket.readyState of every tracked socket
    closeCode,         \* code passed to WebSocket.close() on the socket, 0 if none
    promise,           \* promise of the connect() call that created the socket
    timers,            \* pending setTimeout callbacks, in the order they were armed
    urlOk,             \* does new WebSocket(wsUrl) accept this instance's URL
    wasOpened,         \* history: the socket reached OPEN
    timedOut,          \* history: the socket's attempt was rejected by its timeout
    deliberate,        \* history: disconnect() closed a socket and no caller connected since
    emitted,           \* events emit() delivered during the last step, in order
    lastOp,            \* the step that was taken last
    sent,              \* frames the last send() call handed to WebSocket.send
    escaped,           \* an exception escaped from the last call or callback
    eventHandlers,     \* this.eventHandlers: event type -> handlers, in registration order
    calls,             \* handler invocations of the last step, in order
    hook,              \* the state cells of usePokemonGame
    appended,          \* history: every entry addToGameLog was given, in order
    lastIn,            \* the frame the last step delivered to onmessage, if any
    awaited,           \* sockets whose connect() promise the hook is awaiting
    outstanding,       \* history: simulate_ai_turn requests sent and not yet answered
    board              \* the state cells and the pending timer of PokemonGameBoard

vars == <<ws, isConnecting, reconnectAttempts, readyState, closeCode, promise,
          timers, urlOk, wasOpened, timedOut, deliberate, emitted, lastOp,
          sent, escaped, eventHandlers, calls, hook, appended, lastIn, awaited,
          outstanding, board>>

\* The part of the state the handlers read and write, as one record.
Svc ==
    [ws |-> ws, isConnecting |-> isConnecting,
     reconnectAttempts |-> reconnectAttempts, readyState |-> readyState,
     closeCode |-> closeCode, promise |-> promise, timers |-> timers,
     wasOpened |-> wasOpened, timedOut |-> timedOut, emitted |-> <<>>]

Commit(S) ==
    /\ ws' = S.ws
    /\ isConnecting' = S.isConnecting
    /\ reconnectAttempts' = S.reconnectAttempts
    /\ readyState' = S.readyState
    /\ closeCode' = S.closeCode
    /\ promise' = S.promise
    /\ timers' = S.timers
    /\ wasOpened' = S.wasOpened
    /\ timedOut' = S.timedOut
    /\ emitted' = S.emitted

Op(op, by, sock, outcome, wasClean, settled) ==
    [op |-> op, by |-> by, sock |-> sock, outcome |-> outcome,
     wasClean |-> wasClean, settled |-> settled]

\* ------------------------------------------------------------- promises
\* resolve() and reject() act on a pending promise only.
Resolve(p) == IF p = "pending" THEN "resolved" ELSE p
Reject(p) == IF p = "pending" THEN "rejected" ELSE p

\* What a step did to a promise: its settlement, if it was pending before.
Settled(before, after) ==
    IF before = "pending" /\ after \in {"resolved", "rejected"} THEN after ELSE "none"

\* emit(eventType, data): the event reaches the registered handlers.
Emit(S, type, s) ==
    [S EXCEPT !.emitted = Append(@, [type |-> type, sock |-> s])]

\* --------------------------------------------------------------- timers
TimeoutTimer(s) == [kind |-> "timeout", delay |-> ConnectTimeoutMs, sock |-> s]
\* Mutant: the delay does not grow with the attempt count.
ReconnectDelay_Constant(n) == ReconnectStepMs

ReconnectDelay(n) == ReconnectStepMs * n
ReconnectTimer(n) == [kind |-> "reconnect", delay |-> ReconnectDelay(n), sock |-> NULL]

HasTimeout(T, s) == \E i \in 1..Len(T) : T[i].kind = "timeout" /\ T[i].sock = s

\* A timer armed later with a delay at least as long cannot fire first.
CanFire(T, i) == \A j \in 1..(i - 1) : T[j].delay > T[i].delay

RemoveAt(T, i) == SubSeq(T, 1, i - 1) \o SubSeq(T, i + 1, Len(T))

\* ---------------------------------------------------------------- slots
FreeSlot(S, s) ==
    /\ S.readyState[s] \in {"NONE", "CLOSED"}
    /\ ~HasTimeout(S.timers, s)

HasFreeSlot(S) == \E s \in Slots : FreeSlot(S, s)

NewSlot(S) == CHOOSE s \in Slots : FreeSlot(S, s) /\ \A t \in 1..(s - 1) : ~FreeSlot(S, t)

\* The browser drops a socket object once it is CLOSED: the slot keeps no
\* more than the fact that the socket's 10 s timer is still pending.
Release(S, s) ==
    [S EXCEPT !.readyState[s] = IF HasTimeout(S.timers, s) THEN "CLOSED" ELSE "NONE",
              !.closeCode[s] = 0,
              !.promise[s] = "none",
              !.wasOpened[s] = FALSE,
              !.timedOut[s] = FALSE]

\* --------------------------------------------------------- the handlers
\* connect(), line 70: the guard of the early return.
ConnectReturnsEarly(S) ==
    \/ S.isConnecting
    \/ (S.ws # NULL /\ S.readyState[S.ws] = "OPEN")

\* Mutant: the promise is settled as soon as the socket object exists.
ConnectCreate_ResolvesAtOnce(S, s) ==
    [S EXCEPT !.isConnecting = TRUE,
              !.ws = s,
              !.readyState[s] = "CONNECTING",
              !.closeCode[s] = 0,
              !.promise[s] = "resolved",
              !.wasOpened[s] = FALSE,
              !.timedOut[s] = FALSE,
              !.timers = Append(@, TimeoutTimer(s))]

\* connect(), lines 74-131, when new WebSocket(wsUrl) returns a socket.
ConnectCreate(S, s) ==
    [S EXCEPT !.isConnecting = TRUE,
              !.ws = s,
              !.readyState[s] = "CONNECTING",
              !.closeCode[s] = 0,
              !.promise[s] = "pending",
              !.wasOpened[s] = FALSE,
              !.timedOut[s] = FALSE,
              !.timers = Append(@, TimeoutTimer(s))]

\* connect(), lines 74-83 and 133-136, when new WebSocket(wsUrl) throws.
ConnectThrow(S) == [S EXCEPT !.isConnecting = FALSE]

\* Mutant: open does not reset the reconnect counter.
OnOpen_KeepsCounter(S, s) ==
    LET S1 == [S EXCEPT !.isConnecting = FALSE]
        S2 == Emit(S1, "connected", s)
    IN  [S2 EXCEPT !.promise[s] = Resolve(@)]

\* ws.onopen, lines 85-91.
OnOpen(S, s) ==
    LET S1 == [S EXCEPT !.isConnecting = FALSE, !.reconnectAttempts = 0]
        S2 == Emit(S1, "connected", s)
    IN  [S2 EXCEPT !.promise[s] = Resolve(@)]

\* Mutant: the budget test is off by one.
ShouldReconnect_OffByOne(S, wasClean) ==
    ~wasClean /\ S.reconnectAttempts <= maxReconnectAttempts

\* ws.onclose, line 111: the condition of the automatic reconnection.
ShouldReconnect(S, wasClean) ==
    ~wasClean /\ S.reconnectAttempts < maxReconnectAttempts

\* Mutant: only a socket that had opened is reconnected.
OnClose_OnlyAfterOpen(S, s, wasClean) ==
    LET S1 == [S EXCEPT !.isConnecting = FALSE, !.ws = NULL]
        S2 == Emit(S1, "disconnected", s)
    IN  IF S.wasOpened[s] /\ ~wasClean /\ S2.reconnectAttempts < maxReconnectAttempts
        THEN [S2 EXCEPT !.reconnectAttempts = @ + 1,
                        !.timers = Append(@, ReconnectTimer(S2.reconnectAttempts + 1))]
        ELSE S2

\* ws.onclose, lines 103-116.
OnClose(S, s, wasClean) ==
    LET S1 == [S EXCEPT !.isConnecting = FALSE, !.ws = NULL]
        S2 == Emit(S1, "disconnected", s)
    IN  IF ShouldReconnect(S2, wasClean)
        THEN [S2 EXCEPT !.reconnectAttempts = @ + 1,
                        !.timers = Append(@, ReconnectTimer(S2.reconnectAttempts + 1))]
        ELSE S2

\* ws.onerror, lines 118-123.
OnError(S, s) ==
    LET S1 == [S EXCEPT !.isConnecting = FALSE]
        S2 == Emit(S1, "error", s)
    IN  [S2 EXCEPT !.promise[s] = Reject(@)]

\* The connection timeout callback, lines 126-131.
OnTimeout(S, s) ==
    IF S.isConnecting
    THEN [S EXCEPT !.isConnecting = FALSE,
                   !.timedOut[s] = (S.promise[s] = "pending"),
                   !.promise[s] = Reject(@)]
    ELSE S

\* WebSocket.close(code) of the browser: a socket that is still connecting
\* or open starts closing; a closing or closed socket is left alone.
SocketCloseCall(S, s, code) ==
    IF S.readyState[s] \in {"CONNECTING", "OPEN"}
    THEN [S EXCEPT !.readyState[s] = "CLOSING", !.closeCode[s] = code]
    ELSE S

\* Mutant: disconnect() announces the disconnection itself.
DisconnectCall_EmitsDisconnected(S) ==
    IF S.ws # NULL
    THEN Emit([SocketCloseCall(S, S.ws, NormalClosure) EXCEPT !.ws = NULL],
              "disconnected", S.ws)
    ELSE S

\* disconnect(), lines 143-148.
DisconnectCall(S) ==
    IF S.ws # NULL
    THEN [SocketCloseCall(S, S.ws, NormalClosure) EXCEPT !.ws = NULL]
    ELSE S

\* The isConnected getter, lines 265-267.
Connected == ws # NULL /\ readyState[ws] = "OPEN"

\* ------------------------------------------------------ application data
\* A field a message does not carry, and a state cell holding null.
Undefined == "undefined"
Null == "null"

\* Event types emit() is called with: the service's own connection events,
\* the inbound message types of the protocol, a type nobody subscribes to,
\* and the wildcard channel.
ConnectionEvents == {"connected", "disconnected", "error"}
InboundTypes ==
    {"game_state_update", "ai_thinking_started", "ai_decision_made", "ai_error",
     "player_action_result", "game_reset", "type_advice"}
Wildcard == "message"
EventTypes == ConnectionEvents \cup InboundTypes \cup {Wildcard, "unknown_type"}

\* eventHandlers = new Map(), line 59.
NoHandlers == [t \in EventTypes |-> <<>>]

\* An AIDecision object, and the values that are no object.
Decision(explanation, type_lesson, strategic_insight) ==
    [is |-> "object", explanation |-> explanation, type_lesson |-> type_lesson,
     strategic_insight |-> strategic_insight]
NoDecision(is) ==
    [is |-> is, explanation |-> Undefined, type_lesson |-> Undefined,
     strategic_insight |-> Undefined]

\* A parsed message with the fields the handlers read; result and error stand
\* for message.result.message and message.error.message.
NoMessage ==
    [type |-> Undefined, game_state |-> Undefined,
     ai_decision |-> NoDecision(Undefined), message |-> Undefined,
     explanation |-> Undefined, result |-> Undefined, error |-> Undefined]
Message(type) == [NoMessage EXCEPT !.type = type]

\* JSON.stringify and JSON.parse: a frame's data is either the JSON text of a
\* value or text that is no JSON at all.
JsonStringify(v) == [json |-> TRUE, value |-> v]
NotJson == [json |-> FALSE, value |-> "garbage"]
JsonParse(data) == [ok |-> data.json, value |-> data.value]

\* The data object the service passes with a connection event: it has none of
\* the fields a handler of the hook reads.
EventData(event) == NoMessage

NoDelivery == [kind |-> "none", msg |-> NoMessage, after |-> "none"]

\* JavaScript truthiness of a string-valued field, and a || b.
Truthy(v) == v \notin {Undefined, Null, ""}
OrElse(v, default) == IF Truthy(v) THEN v ELSE default

\* One log entry: the literal part of the line and the interpolated text.
Line(literal, text) == <<literal, text>>

\* useState initial values, usePokemonGame.tsx lines 27-36.
InitialLog == <<Line("Welcome", ""), Line("Connect to start", "")>>
HookInitial ==
    [isConnected |-> FALSE, isConnecting |-> FALSE, connectionError |-> Null,
     gameState |-> Null, aiThinking |-> FALSE, aiDecision |-> NoDecision(Null),
     gameLog |-> InitialLog]

\* The log game_reset installs, usePokemonGame.tsx line 106.
ResetLog == <<Line("New battle started", ""), Line("Choose your first move", "")>>

\* The application state the handlers read and write, as one record; calls
\* and threw describe the dispatch in progress.
App ==
    [handlers |-> eventHandlers, hook |-> hook, appended |-> appended,
     calls |-> <<>>, threw |-> FALSE]

AppCommit(A) ==
    /\ eventHandlers' = A.handlers
    /\ hook' = A.hook
    /\ appended' = A.appended
    /\ calls' = A.calls
    /\ escaped' = A.threw

\* ------------------------------------------------------------- the hook
\* prev.slice(-19), usePokemonGame.tsx line 122.
LogKeep == 19
SliceLast(log, n) ==
    IF Len(log) <= n THEN log ELSE SubSeq(log, Len(log) - n + 1, Len(log))

\* Mutant: one entry more is kept before the new one is added.
AddToGameLog_KeepsOneMore(A, entry) ==
    [A EXCEPT !.hook.gameLog = Append(SliceLast(@, LogKeep + 1), entry),
              !.appended = Append(@, entry)]

\* addToGameLog, lines 121-123.
AddToGameLog(A, entry) ==
    [A EXCEPT !.hook.gameLog = Append(SliceLast(@, LogKeep), entry),
              !.appended = Append(@, entry)]

\* Mutant: the insight line is logged before the lesson line.
OnAiDecisionMade_InsightFirst(m, A) ==
    LET d  == m.ai_decision
        A1 == [A EXCEPT !.hook.aiThinking = FALSE, !.hook.aiDecision = d,
                        !.hook.gameState = m.game_state]
        A2 == AddToGameLog(A1, Line("AI Decision: ", d.explanation))
        A3 == IF Truthy(d.strategic_insight)
              THEN AddToGameLog(A2, Line("Insight: ", d.strategic_insight)) ELSE A2
        A4 == IF Truthy(d.type_lesson)
              THEN AddToGameLog(A3, Line("Lesson: ", d.type_lesson)) ELSE A3
    IN  IF d.is # "object" THEN [A1 EXCEPT !.threw = TRUE] ELSE A4

\* The ai_decision_made handler, lines 76-91: the three setters run first;
\* reading a field of a decision that is no object throws.
OnAiDecisionMade(m, A) ==
    LET d  == m.ai_decision
        A1 == [A EXCEPT !.hook.aiThinking = FALSE, !.hook.aiDecision = d,
                        !.hook.gameState = m.game_state]
        A2 == AddToGameLog(A1, Line("AI Decision: ", d.explanation))
        A3 == IF Truthy(d.type_lesson)
              THEN AddToGameLog(A2, Line("Lesson: ", d.type_lesson)) ELSE A2
        A4 == IF Truthy(d.strategic_insight)
              THEN AddToGameLog(A3, Line("Insight: ", d.strategic_insight)) ELSE A3
    IN  IF d.is # "object" THEN [A1 EXCEPT !.threw = TRUE] ELSE A4

\* Mutant: the ai_error handler also discards the decision on display.
OnAiError_ClearsDecision(m, A) ==
    AddToGameLog([A EXCEPT !.hook.aiThinking = FALSE,
                           !.hook.aiDecision = NoDecision(Null)],
                 Line("AI Error: ", m.message))

\* The ai_error handler, lines 93-96.
OnAiError(m, A) ==
    AddToGameLog([A EXCEPT !.hook.aiThinking = FALSE],
                 Line("AI Error: ", m.message))

\* Mutant: a snapshot is merged into the mirrored state only when none is held.
SetGameState_KeepFirst(A, gs) ==
    IF A.hook.gameState = Null THEN [A EXCEPT !.hook.gameState = gs] ELSE A

\* setGameState(message.game_state), lines 66, 79, 99, 104.
SetGameState(A, gs) == [A EXCEPT !.hook.gameState = gs]

\* The handlers usePokemonGame registers, lines 46-111, by event type.
HookHandler(type, m, A) ==
    CASE type = "connected" ->
            AddToGameLog([A EXCEPT !.hook.isConnected = TRUE,
                                   !.hook.isConnecting = FALSE,
                                   !.hook.connectionError = Null],
                         Line("Connected", ""))
      [] type = "disconnected" ->
            AddToGameLog([A EXCEPT !.hook.isConnected = FALSE,
                                   !.hook.isConnecting = FALSE],
                         Line("Disconnected", ""))
      [] type = "error" ->
            AddToGameLog([A EXCEPT !.hook.connectionError =
                                       OrElse(m.error, "Connection error"),
                                   !.hook.isConnecting = FALSE],
                         Line("Connection error", ""))
      [] type = "game_state_update" ->
            AddToGameLog(SetGameState(A, m.game_state),
                         Line("Game state updated", ""))
      [] type = "ai_thinking_started" ->
            AddToGameLog([A EXCEPT !.hook.aiThinking = TRUE,
                                   !.hook.aiDecision = NoDecision(Null)],
                         Line("", OrElse(m.message, "AI is thinking...")))
      [] type = "ai_decision_made" -> OnAiDecisionMade(m, A)
      [] type = "ai_error" -> OnAiError(m, A)
      [] type = "player_action_result" ->
            IF m.result = Undefined
            THEN [SetGameState(A, m.game_state) EXCEPT !.threw = TRUE]
            ELSE AddToGameLog(SetGameState(A, m.game_state),
                              Line("Player: ", m.result))
      [] type = "game_reset" ->
            [SetGameState(A, m.game_state) EXCEPT
                !.hook.aiDecision = NoDecision(Null),
                !.hook.gameLog = ResetLog,
                !.appended = ResetLog]
      [] type = "type_advice" ->
            AddToGameLog(A, Line("Type Advice: ", m.explanation))
      [] OTHER -> A

\* The events usePokemonGame subscribes to, each with its own handler.
HookTypes == ConnectionEvents \cup InboundTypes
HookRegistry == [t \in EventTypes |-> IF t \in HookTypes THEN <<"hook">> ELSE <<>>]

\* ------------------------------------------------------------- dispatch
\* Subscribers other than the hook: two that return and one that throws.
Subscribers == {"first", "second", "thrower"}
\* A handler that unsubscribes itself when it is invoked: it calls
\* off(eventType, itself), lines 236-244, from inside the dispatch.
SelfRemoving == "once"

\* on(eventType, handler), lines 226-231.
OnCall(H, type, h) == [H EXCEPT ![type] = Append(@, h)]

\* off(eventType, handler), lines 236-244: indexOf and splice.
IndexOf(seq, h) ==
    IF \E i \in 1..Len(seq) : seq[i] = h
    THEN CHOOSE i \in 1..Len(seq) : seq[i] = h /\ \A j \in 1..(i - 1) : seq[j] # h
    ELSE 0
OffCall(H, type, h) ==
    IF IndexOf(H[type], h) = 0
    THEN H
    ELSE [H EXCEPT ![type] = RemoveAt(@, IndexOf(H[type], h))]

\* handler(data), line 253: the call is recorded, then the handler runs.
Invoke(h, type, data, A) ==
    LET called == [A EXCEPT !.calls = Append(@, <<type, h>>)]
    IN  CASE h = "hook" -> HookHandler(type, data, called)
          [] h = "thrower" -> [called EXCEPT !.threw = TRUE]
          [] h = SelfRemoving -> [called EXCEPT !.handlers = OffCall(@, type, h)]
          [] OTHER -> called

\* Mutant: forEach without the try/catch around each handler; the first
\* exception ends the loop and leaves emit().
RECURSIVE ForEach_NoCatch(_, _, _, _)
ForEach_NoCatch(type, i, data, A) ==
    IF i > Len(A.handlers[type]) \/ A.threw
    THEN A
    ELSE ForEach_NoCatch(type, i + 1, data, Invoke(A.handlers[type][i], type, data, A))

\* handlers.forEach with the try/catch of lines 252-256, from index i on.
RECURSIVE ForEach(_, _, _, _)
ForEach(type, i, data, A) ==
    IF i > Len(A.handlers[type])
    THEN A
    ELSE ForEach(type, i + 1, data,
                 [Invoke(A.handlers[type][i], type, data, A) EXCEPT !.threw = FALSE])

\* emit(eventType, data), lines 249-260.
EmitTo(type, data, A) == ForEach(type, 1, data, A)

\* handleMessage, lines 218-221.
HandleMessage(message, A) ==
    LET A1 == EmitTo(message.type, message, A)
    IN  IF A1.threw THEN A1 ELSE EmitTo(Wildcard, message, A1)

\* Mutant: a frame that does not parse is reported as an 'error' event.
OnMessage_ReportsError(data, A) ==
    LET parsed == JsonParse(data)
    IN  IF parsed.ok
        THEN [HandleMessage(parsed.value, A) EXCEPT !.threw = FALSE]
        ELSE EmitTo("error", NoMessage, A)

\* ws.onmessage, lines 93-101: whatever is thrown inside is caught and logged.
OnMessage(data, A) ==
    LET parsed == JsonParse(data)
    IN  IF parsed.ok
        THEN [HandleMessage(parsed.value, A) EXCEPT !.threw = FALSE]
        ELSE A

\* The emit() calls of a socket callback, lines 89, 108 and 121, in order.
RECURSIVE DeliverFrom(_, _, _)
DeliverFrom(events, i, A) ==
    IF i > Len(events)
    THEN A
    ELSE DeliverFrom(events, i + 1, EmitTo(events[i].type, EventData(events[i].type), A))

\* ----------------------------------------------------------------- send
\* The outbound message each method builds, lines 166-213.
Methods ==
    {"simulateAITurn", "sendPlayerAction", "requestGameState", "resetGame",
     "requestTypeAdvice"}

OutboundMessage(method) ==
    CASE method = "simulateAITurn" ->
            [type |-> "simulate_ai_turn", fields |-> {"timestamp"}]
      [] method = "sendPlayerAction" ->
            [type |-> "player_action",
             fields |-> {"action_type", "action_data", "timestamp"}]
      [] method = "requestGameState" ->
            [type |-> "get_game_state", fields |-> {}]
      [] method = "resetGame" ->
            [type |-> "reset_game", fields |-> {"timestamp"}]
      [] method = "requestTypeAdvice" ->
            [type |-> "get_type_advice",
             fields |-> {"attacking_type", "defending_type"}]

\* WebSocket.send of the browser: it throws on a socket that is still
\* connecting, transmits on an open one and discards silently otherwise.
WebSocketSend(rs) ==
    CASE rs = "CONNECTING" -> "throws"
      [] rs = "OPEN" -> "transmits"
      [] OTHER -> "discards"

\* Mutant: send() tests the handle only, not the socket's readyState.
SendCall_HandleOnly(S, message) ==
    IF S.ws = NULL
    THEN [frames |-> <<>>, threw |-> FALSE]
    ELSE LET r == WebSocketSend(S.readyState[S.ws])
         IN  [frames |-> IF r = "transmits"
                         THEN <<[sock |-> S.ws, data |-> JsonStringify(message)]>>
                         ELSE <<>>,
              threw |-> (r = "throws")]

\* send(), lines 153-161: what the call transmits and whether it throws.
SendCall(S, message) ==
    IF S.ws = NULL \/ S.readyState[S.ws] # "OPEN"
    THEN [frames |-> <<>>, threw |-> FALSE]
    ELSE LET r == WebSocketSend(S.readyState[S.ws])
         IN  [frames |-> IF r = "transmits"
                         THEN <<[sock |-> S.ws, data |-> JsonStringify(message)]>>
                         ELSE <<>>,
              threw |-> (r = "throws")]

\* History of the AI-turn requests: a transmitted simulate_ai_turn frame is
\* one more request awaiting its answer, and a parsed ai_decision_made or
\* ai_error message answers one.
Requested(n, frames) ==
    n + Cardinality({i \in DOMAIN frames :
                        JsonParse(frames[i].data).value.type = "simulate_ai_turn"})
Answered(n, parsed) ==
    IF parsed.ok /\ parsed.value.type \in {"ai_decision_made", "ai_error"} /\ n > 0
    THEN n - 1
    ELSE n

\* ------------------------------------------------ the standalone board
\* frontend/src/components/PokemonGameBoard.tsx: the board that plays without
\* a server.  A card is known by its id; its name, type and attacks are those
\* the component writes down for it.  A drawn card's id is its Date.now(),
\* here the number of the draw; its name and type are one of the four the
\* component picks from.
DrawnId(n) == "drawn-" \o ToString(n)
DrawnIds == {DrawnId(n) : n \in 1..MaxDraws}
DrawnName(n) ==
    CASE n % 4 = 1 -> "Eevee" [] n % 4 = 2 -> "Psyduck"
      [] n % 4 = 3 -> "Magikarp" [] OTHER -> "Caterpie"
DrawnType(n) ==
    CASE n % 4 = 1 -> "Normal" [] n % 4 = 0 -> "Bug" [] OTHER -> "Water"
CardNames ==
    [id \in {"charmander-1", "bulbasaur-1", "pikachu-1", "squirtle-1"} \cup DrawnIds |->
        CASE id = "charmander-1" -> "Charmander"
          [] id = "bulbasaur-1" -> "Bulbasaur"
          [] id = "pikachu-1" -> "Pikachu"
          [] id = "squirtle-1" -> "Squirtle"
          [] OTHER -> DrawnName(CHOOSE n \in 1..MaxDraws : id = DrawnId(n))]
CardName(id) == CardNames[id]
CardType(id) ==
    CASE id = "charmander-1" -> "Fire"
      [] id = "bulbasaur-1" -> "Grass"
      [] id = "pikachu-1" -> "Electric"
      [] id = "squirtle-1" -> "Water"
      [] OTHER -> DrawnType(CHOOSE n \in 1..MaxDraws : id = DrawnId(n))
CardAttacks(id) ==
    CASE id = "charmander-1" ->
            {[name |-> "Scratch", damage |-> 10], [name |-> "Ember", damage |-> 30]}
      [] id = "pikachu-1" -> {[name |-> "Thunder Shock", damage |-> 20]}
      [] OTHER -> {[name |-> "Tackle", damage |-> 10]}

\* useState initial values, lines 727-803, and the log handleResetGame
\* installs, lines 1041-1045.  pending lists the 2500 ms timers that have not
\* fired; a timer is marked once handleResetGame has run since it was armed.
\* draws counts the cards drawn so far, moves the actions the user has been
\* followed through.
StartedLog ==
    <<Line("Battle Started", ""), Line("Charmander vs Squirtle", ""),
      Line("AI is ready", ""), Line("Your turn", ""),
      Line("Lesson: Fire is weak to Water", "")>>
NewGameLog ==
    <<Line("New Pokemon battle started", ""), Line("Game reset", ""),
      Line("Remember", "")>>
BoardInitial ==
    [currentTurn |-> "child", turnNumber |-> 1, activePokemon |-> "charmander-1",
     benchedPokemon |-> <<"bulbasaur-1">>, hand |-> <<"pikachu-1">>,
     aiActive |-> "squirtle-1", aiHp |-> 50, aiThinking |-> FALSE,
     gameLog |-> StartedLog, pending |-> <<>>, draws |-> 0, moves |-> 0]

\* array.filter(p => p.id !== id)
Without(cards, id) == SelectSeq(cards, LAMBDA c : c # id)

\* handleSimulateAI, lines 805-823: the click, and the timer's callback.
HandleSimulateAI(B) ==
    [B EXCEPT !.aiThinking = TRUE,
              !.gameLog = Append(@, Line("AI is analyzing", "")),
              !.pending = Append(@, "armed")]
AIDecisionLog ==
    <<Line("AI Decision: Water Gun", ""), Line("Super effective damage", ""),
      Line("AI Lesson", ""), Line("Your turn - respond", "")>>
SimulatedAITurn(B) ==
    [B EXCEPT !.aiThinking = FALSE,
              !.currentTurn = "child",
              !.turnNumber = @ + 1,
              !.gameLog = @ \o AIDecisionLog,
              !.pending = Tail(@)]

\* handlePlayerAction, lines 825-965, branch by branch.
MaxBench == 5
\* Mutant: a card is put on the bench whether or not there is space.
PlayPokemon_NoLimit(B, id) ==
    [B EXCEPT !.benchedPokemon = Append(@, id), !.hand = Without(@, id)]
PlayPokemon(B, id) ==
    IF Len(B.benchedPokemon) < MaxBench
    THEN [B EXCEPT !.benchedPokemon = Append(@, id), !.hand = Without(@, id)]
    ELSE B
Retreat(B, id) ==
    [B EXCEPT !.activePokemon = id,
              !.benchedPokemon =
                  IF B.activePokemon # Null
                  THEN Append(Without(@, id), B.activePokemon)
                  ELSE Without(@, id)]
SuperEffective(attacker, defender) ==
    <<attacker, defender>> \in
        {<<"Fire", "Grass">>, <<"Water", "Fire">>, <<"Grass", "Water">>,
         <<"Electric", "Water">>}
AttackDamage(B, attack) ==
    IF B.activePokemon # Null /\ B.aiActive # Null
       /\ SuperEffective(CardType(B.activePokemon), CardType(B.aiActive))
    THEN attack.damage * 2
    ELSE attack.damage
Attack(B, attack) ==
    LET damage == AttackDamage(B, attack)
        hit == IF B.aiHp - damage > 0 THEN B.aiHp - damage ELSE 0
    IN  [B EXCEPT !.aiHp = hit,
                  !.gameLog = @ \o <<Line("used", <<CardName(B.activePokemon), attack.name>>),
                                     Line("Dealt damage", <<damage, CardName(B.aiActive)>>)>>
                                \o (IF damage > attack.damage
                                    THEN <<Line("super effective", "")>> ELSE <<>>)
                                \o (IF B.aiHp - damage <= 0
                                    THEN <<Line("knocked out", CardName(B.aiActive))>>
                                    ELSE <<>>)]
HandlePlayerAction(B, actionId, arg) ==
    CASE actionId = "play_pokemon" ->
            [PlayPokemon(B, arg) EXCEPT
                !.gameLog = @ \o <<Line("You played to your bench", CardName(arg)),
                                   Line("is now ready for battle", CardName(arg))>>]
      [] actionId = "retreat" ->
            [Retreat(B, arg) EXCEPT
                !.gameLog = @ \o <<Line("You switched to the active position", CardName(arg)),
                                   Line("is now ready to battle", CardName(arg))>>]
      [] actionId = "attack" -> Attack(B, arg)
      [] actionId = "draw_card" ->
            [B EXCEPT !.hand = Append(@, arg),
                      !.gameLog = @ \o <<Line("You drew a card", ""),
                                         Line("New card added to your hand", "")>>]
      [] OTHER ->
            [B EXCEPT !.gameLog = @ \o <<Line("You performed", actionId),
                                         Line("Strategic thinking", "")>>]

\* handleEndTurn, lines 967-970.
HandleEndTurn(B) ==
    [B EXCEPT !.currentTurn = "ai",
              !.gameLog = Append(@, Line("Turn ended", ""))]

\* handleResetGame, lines 972-1046: the game state and the log are replaced;
\* aiThinking and the pending timer are left as they are.
HandleResetGame(B) ==
    [B EXCEPT !.currentTurn = "child", !.turnNumber = 1,
              !.activePokemon = "charmander-1",
              !.benchedPokemon = <<"bulbasaur-1">>, !.hand = <<"pikachu-1">>,
              !.aiActive = "squirtle-1", !.aiHp = 50,
              !.gameLog = NewGameLog,
              !.pending = [i \in DOMAIN @ |-> "outlived a reset"]]

\* ---------------------------------------------------------------- Init
\* The service after its constructor, lines 55-64.
ServiceInit ==
    /\ ws = NULL
    /\ isConnecting = FALSE
    /\ reconnectAttempts = 0
    /\ readyState = [s \in Slots |-> "NONE"]
    /\ closeCode = [s \in Slots |-> 0]
    /\ promise = [s \in Slots |-> "none"]
    /\ timers = <<>>
    /\ urlOk \in BOOLEAN
    /\ wasOpened = [s \in Slots |-> FALSE]
    /\ timedOut = [s \in Slots |-> FALSE]
    /\ deliberate = FALSE
    /\ emitted = <<>>
    /\ lastOp = Op("init", "none", NULL, "none", FALSE, "none")
    /\ sent = <<>>
    /\ escaped = FALSE
    /\ awaited = [s \in Slots |-> FALSE]

\* A service nobody has subscribed to and a hook that has only been rendered.
AppIdle ==
    /\ eventHandlers = NoHandlers
    /\ calls = <<>>
    /\ hook = HookInitial
    /\ appended = InitialLog
    /\ lastIn = NoDelivery

\* No request has been sent; the standalone board has only been rendered.
NothingElse ==
    /\ outstanding = 0
    /\ board = BoardInitial

Init == ServiceInit /\ AppIdle /\ NothingElse

\* -------------------------------------------------------------- actions
\* The message of the rejection the hook's connect() catches, lines 133-134:
\* the timeout rejects with an Error, onerror with the error event.
RejectReason(op) ==
    IF op = "timeout" THEN "Connection timeout" ELSE "Connection failed"

\* What a step of the service does outside the service: the handlers of the
\* events it emitted run, in order, and then the catch block of the hook's
\* connect() if the step rejected the promise that call is awaiting.
Notify ==
    LET A == DeliverFrom(emitted', 1, App)
        s == lastOp'.sock
        caught == lastOp'.settled = "rejected" /\ s # NULL /\ awaited[s]
    IN  /\ AppCommit(IF caught
                     THEN [A EXCEPT !.hook.connectionError = RejectReason(lastOp'.op),
                                    !.hook.isConnecting = FALSE]
                     ELSE A)
        /\ awaited' = [x \in Slots |-> awaited[x] /\ promise'[x] = "pending"]
        /\ lastIn' = NoDelivery
        /\ UNCHANGED <<outstanding, board>>

\* One call of connect() from state S, by a caller or by a reconnect timer.
ConnectStep(S, by) ==
    IF ConnectReturnsEarly(S)
    THEN /\ Commit(S)
         /\ lastOp' = Op("connect", by, NULL, "early", FALSE, "resolved")
    ELSE IF ~urlOk
    THEN /\ Commit(ConnectThrow(S))
         /\ lastOp' = Op("connect", by, NULL, "threw", FALSE, "rejected")
    ELSE /\ HasFreeSlot(S)
         /\ Commit(ConnectCreate(S, NewSlot(S)))
         /\ lastOp' = Op("connect", by, NewSlot(S), "created", FALSE,
                         Settled("pending", ConnectCreate(S, NewSlot(S)).promise[NewSlot(S)]))

\* A caller (the hook, the Connect button) calls connect().
Connect ==
    /\ Len(timers) < MaxTimers
    /\ ConnectStep(Svc, "caller")
    /\ deliberate' = FALSE
    /\ UNCHANGED <<urlOk, sent>>
    /\ Notify

\* A caller calls disconnect().
Disconnect ==
    /\ Commit(DisconnectCall(Svc))
    /\ lastOp' = Op("disconnect", "caller", ws, "none", FALSE, "none")
    /\ deliberate' = (deliberate \/ ws # NULL)
    /\ UNCHANGED <<urlOk, sent>>
    /\ Notify

\* The browser: the handshake of socket s succeeds; open is fired.
SocketOpen(s) ==
    /\ readyState[s] = "CONNECTING"
    /\ LET S1 == [Svc EXCEPT !.readyState[s] = "OPEN", !.wasOpened[s] = TRUE]
           S2 == OnOpen(S1, s)
       IN  /\ Commit(S2)
           /\ lastOp' = Op("open", "browser", s, "none", FALSE,
                           Settled(promise[s], S2.promise[s]))
    /\ UNCHANGED <<urlOk, deliberate, sent>>
    /\ Notify

\* The browser: the connection of a socket that never opened fails (network
\* or handshake failure, or close() before the connection was established);
\* error is fired, then close with wasClean = false.
SocketFail(s) ==
    /\ Len(timers) < MaxTimers
    /\ readyState[s] \in {"CONNECTING", "CLOSING"}
    /\ ~wasOpened[s]
    /\ LET S1 == [Svc EXCEPT !.readyState[s] = "CLOSED"]
           S2 == OnError(S1, s)
           S3 == OnClose(S2, s, FALSE)
       IN  /\ Commit(Release(S3, s))
           /\ lastOp' = Op("fail", "browser", s, "none", FALSE,
                           Settled(promise[s], S3.promise[s]))
    /\ UNCHANGED <<urlOk, deliberate, sent>>
    /\ Notify

\* The browser: a socket that had opened is closed.  The close is clean when
\* the closing handshake completed; when the connection is lost it is not,
\* and error may be fired before close.
SocketClose(s, wasClean, withError) ==
    /\ Len(timers) < MaxTimers
    /\ readyState[s] \in {"OPEN", "CLOSING"}
    /\ wasOpened[s]
    /\ wasClean => ~withError
    /\ LET S1 == [Svc EXCEPT !.readyState[s] = "CLOSED"]
           S2 == IF withError THEN OnError(S1, s) ELSE S1
           S3 == OnClose(S2, s, wasClean)
       IN  /\ Commit(Release(S3, s))
           /\ lastOp' = Op("close", "browser", s, "none", wasClean,
                           Settled(promise[s], S3.promise[s]))
    /\ UNCHANGED <<urlOk, deliberate, sent>>
    /\ Notify

\* The 10 s timer armed by the connect() call that created socket s fires.
TimeoutFire(i) ==
    /\ i \in 1..Len(timers)
    /\ timers[i].kind = "timeout"
    /\ CanFire(timers, i)
    /\ LET s == timers[i].sock
           S1 == [Svc EXCEPT !.timers = RemoveAt(@, i)]
           S2 == OnTimeout(S1, s)
       IN  /\ Commit(IF readyState[s] = "CLOSED" THEN Release(S2, s) ELSE S2)
           /\ lastOp' = Op("timeout", "timer", s, "none", FALSE,
                           Settled(promise[s], S2.promise[s]))
    /\ UNCHANGED <<urlOk, deliberate, sent>>
    /\ Notify

\* A reconnect timer fires: () => this.connect(), line 114.
ReconnectFire(i) ==
    /\ i \in 1..Len(timers)
    /\ timers[i].kind = "reconnect"
    /\ CanFire(timers, i)
    /\ ConnectStep([Svc EXCEPT !.timers = RemoveAt(@, i)], "timer")
    /\ UNCHANGED <<urlOk, deliberate, sent>>
    /\ Notify

Next ==
    \/ Connect
    \/ Disconnect
    \/ \E s \in Slots : SocketOpen(s)
    \/ \E s \in Slots : SocketFail(s)
    \/ \E s \in Slots, wasClean \in BOOLEAN, withError \in BOOLEAN :
           SocketClose(s, wasClean, withError)
    \/ \E i \in 1..MaxTimers : TimeoutFire(i)
    \/ \E i \in 1..MaxTimers : ReconnectFire(i)

Spec == Init /\ [][Next]_vars

\* --------------------------------------------------------- sending frames
\* A caller calls one of the five sending methods, lines 166-213; AI turns
\* are requested until MaxOutstanding of them await their answer.
ServiceSend(method) ==
    /\ method = "simulateAITurn" => outstanding < MaxOutstanding
    /\ LET r == SendCall(Svc, OutboundMessage(method))
       IN  /\ sent' = r.frames
           /\ escaped' = r.threw
           /\ outstanding' = Requested(outstanding, r.frames)
    /\ Commit(Svc)
    /\ lastOp' = Op("send", "caller", ws, method, FALSE, "none")
    /\ calls' = <<>>
    /\ lastIn' = NoDelivery
    /\ UNCHANGED <<urlOk, deliberate, eventHandlers, hook, appended, awaited, board>>

\* The browser: the server's Close frame arrives on an open socket, which is
\* CLOSING until its close event fires.
SocketClosing(s) ==
    /\ readyState[s] = "OPEN"
    /\ Commit([Svc EXCEPT !.readyState[s] = "CLOSING"])
    /\ lastOp' = Op("closing", "browser", s, "none", FALSE, "none")
    /\ UNCHANGED <<urlOk, deliberate, sent>>
    /\ Notify

\* The service and its callers over a span in which no timer comes due.
SendNext ==
    \/ Connect
    \/ Disconnect
    \/ \E s \in Slots : SocketOpen(s)
    \/ \E s \in Slots : SocketClosing(s)
    \/ \E s \in Slots : SocketFail(s)
    \/ \E s \in Slots, wasClean \in BOOLEAN, withError \in BOOLEAN :
           SocketClose(s, wasClean, withError)
    \/ \E method \in Methods : ServiceSend(method)

SendSpec == Init /\ [][SendNext]_vars

TypeOK ==
    /\ ws \in Slots \cup {NULL}
    /\ isConnecting \in BOOLEAN
    /\ reconnectAttempts \in 0..maxReconnectAttempts
    /\ readyState \in [Slots -> {"NONE", "CONNECTING", "OPEN", "CLOSING", "CLOSED"}]
    /\ promise \in [Slots -> {"none", "pending", "resolved", "rejected"}]
    /\ Len(timers) <= MaxTimers

\* ------------------------------------------------- the service in its app
\* The browser delivers a frame to socket s: ws.onmessage, lines 93-101.
InboundFrame(s, data) ==
    /\ readyState[s] \in {"OPEN", "CLOSING"}
    /\ wasOpened[s]
    /\ Commit(Svc)
    /\ lastOp' = Op("message", "browser", s,
                    IF JsonParse(data).ok THEN "parsed" ELSE "dropped", FALSE, "none")
    /\ AppCommit(OnMessage(data, App))
    /\ lastIn' = [kind  |-> IF JsonParse(data).ok THEN "message" ELSE "garbage",
                  msg   |-> IF JsonParse(data).ok THEN JsonParse(data).value ELSE NoMessage,
                  after |-> lastIn.kind]
    /\ outstanding' = Answered(outstanding, JsonParse(data))
    /\ UNCHANGED <<urlOk, deliberate, sent, awaited, board>>

\* A subscriber calls on(eventType, handler).
Registrations(H) == Len(H["connected"]) + Len(H["type_advice"]) + Len(H[Wildcard])
SubscribedTypes == {"connected", "type_advice", Wildcard}

On(type, h) ==
    /\ Registrations(eventHandlers) < MaxRegistrations
    /\ Commit(Svc)
    /\ lastOp' = Op("on", "caller", NULL, type, FALSE, "none")
    /\ AppCommit([App EXCEPT !.handlers = OnCall(@, type, h)])
    /\ lastIn' = NoDelivery
    /\ UNCHANGED <<urlOk, deliberate, sent, awaited, outstanding, board>>

\* A subscriber calls off(eventType, handler).
Off(type, h) ==
    /\ Commit(Svc)
    /\ lastOp' = Op("off", "caller", NULL, type, FALSE, "none")
    /\ AppCommit([App EXCEPT !.handlers = OffCall(@, type, h)])
    /\ lastIn' = NoDelivery
    /\ UNCHANGED <<urlOk, deliberate, sent, awaited, outstanding, board>>

\* Frames a server sends to plain subscribers: one of a subscribed type, one
\* whose type is the wildcard's name, one nobody subscribed to, and one that
\* is no JSON.
DispatchFrames ==
    {JsonStringify([Message("type_advice") EXCEPT !.explanation = "A1"]),
     JsonStringify(Message(Wildcard)),
     JsonStringify(Message("unknown_type")),
     NotJson}

DispatchNext ==
    \/ Connect
    \/ \E s \in Slots : SocketOpen(s)
    \/ \E type \in SubscribedTypes, h \in Subscribers : On(type, h)
    \/ \E type \in SubscribedTypes, h \in Subscribers : Off(type, h)
    \/ \E s \in Slots, data \in DispatchFrames : InboundFrame(s, data)

DispatchSpec == Init /\ [][DispatchNext]_vars

\* --------------------------------------------------- the hook on the service
\* The hook after its mount effect, lines 41-111: its ten handlers are
\* registered.
Mounted ==
    /\ eventHandlers = HookRegistry
    /\ calls = <<>>
    /\ hook = HookInitial
    /\ appended = InitialLog
    /\ lastIn = NoDelivery

HookInit == ServiceInit /\ Mounted /\ NothingElse

\* connect() of the hook, lines 125-137: it marks the hook as connecting and
\* awaits the service's connect(); a rejection runs the catch block.
HookConnect ==
    /\ ~hook.isConnecting
    /\ Len(timers) < MaxTimers
    /\ ConnectStep(Svc, "caller")
    /\ deliberate' = FALSE
    /\ LET A1 == [App EXCEPT !.hook.isConnecting = TRUE,
                             !.hook.connectionError = Null]
       IN  AppCommit(IF lastOp'.outcome = "threw"
                     THEN [A1 EXCEPT !.hook.connectionError = "Invalid URL",
                                     !.hook.isConnecting = FALSE]
                     ELSE A1)
    /\ awaited' = [x \in Slots |->
                      promise'[x] = "pending" /\ (awaited[x] \/ x = lastOp'.sock)]
    /\ lastIn' = NoDelivery
    /\ UNCHANGED <<urlOk, sent, outstanding, board>>

\* Decisions a server sends: without and with a lesson and an insight, and
\* with a lesson that is the empty string.
Decisions ==
    {Decision("E1", Undefined, Undefined), Decision("E2", "L2", "S2"),
     Decision("E3", "", "S3")}

\* Messages of every type the hook subscribes to, and a frame that is no JSON.
HookMessages ==
    {[Message("ai_thinking_started") EXCEPT !.message = t] :
            t \in {Undefined, "T1"}}
    \cup {[Message("ai_decision_made") EXCEPT !.game_state = "G2", !.ai_decision = d] :
            d \in Decisions}
    \cup {[Message("game_state_update") EXCEPT !.game_state = "G1"],
          [Message("ai_error") EXCEPT !.message = "X1"],
          [Message("player_action_result") EXCEPT !.game_state = "G1", !.result = "R1"],
          [Message("game_reset") EXCEPT !.game_state = "G1", !.message = "N1"],
          [Message("type_advice") EXCEPT !.explanation = "A1"]}

HookFrames == {JsonStringify(m) : m \in HookMessages} \cup {NotJson}

\* A frame reaches the hook, until the log has been given MaxLogged entries.
HookReceives(s, data) ==
    /\ Len(appended) < MaxLogged
    /\ InboundFrame(s, data)

\* The hook and its service over a span in which no timer comes due.
HookNext ==
    \/ HookConnect
    \/ Disconnect
    \/ \E s \in Slots : SocketOpen(s)
    \/ \E s \in Slots : SocketFail(s)
    \/ \E s \in Slots, wasClean \in BOOLEAN, withError \in BOOLEAN :
           SocketClose(s, wasClean, withError)
    \/ \E s \in Slots, data \in HookFrames : HookReceives(s, data)

HookSpec == HookInit /\ [][HookNext]_vars

\* ------------------------------------------ handlers that unsubscribe
\* Subscribers of which one removes itself when invoked, and the frame a
\* server sends them.
OffSubscribers == {"first", "second", SelfRemoving}
OffSpecNext ==
    \/ Connect
    \/ \E s \in Slots : SocketOpen(s)
    \/ \E type \in SubscribedTypes, h \in OffSubscribers : On(type, h)
    \/ \E s \in Slots :
           InboundFrame(s, JsonStringify([Message("type_advice") EXCEPT !.explanation = "A1"]))

OffSpec == Init /\ [][OffSpecNext]_vars

\* ------------------------------------------- the backend-integrated board
\* gameState?.current_turn of the snapshots a server sends: in G1 it is the
\* AI's turn, in G2 the child's; no snapshot has no turn.
CurrentTurn(gs) ==
    CASE gs = "G1" -> "ai"
      [] gs = "G2" -> "child"
      [] OTHER -> Undefined

\* The Simulate AI Turn button of EnhancedPokemonGameBoard is enabled,
\* part_005 line 282.
SimulateEnabled ==
    ~(~hook.isConnected \/ hook.aiThinking \/ CurrentTurn(hook.gameState) # "ai")

\* The user clicks the enabled button: simulateAITurn of the hook,
\* usePokemonGame.tsx lines 145-149, calls the service's method.
ClickSimulateAITurn ==
    /\ SimulateEnabled
    /\ hook.isConnected
    /\ ServiceSend("simulateAITurn")

\* What a server sends around an AI turn.
TurnMessages ==
    {[Message("game_state_update") EXCEPT !.game_state = "G1"],
     [Message("ai_thinking_started") EXCEPT !.message = "T1"],
     [Message("ai_decision_made") EXCEPT
         !.game_state = "G2", !.ai_decision = Decision("E1", Undefined, Undefined)],
     [Message("ai_error") EXCEPT !.message = "X1"]}

\* A frame reaches the hook, until the log has been given MaxTurnLogged
\* entries.
TurnReceives(s, data) ==
    /\ Len(appended) < MaxTurnLogged
    /\ InboundFrame(s, data)

\* The board's user and the server, on a connection that stays up.
TurnNext ==
    \/ HookConnect
    \/ \E s \in Slots : SocketOpen(s)
    \/ ClickSimulateAITurn
    \/ \E s \in Slots, m \in TurnMessages : TurnReceives(s, JsonStringify(m))

TurnSpec == HookInit /\ [][TurnNext]_vars

\* ------------------------------------- messages named like connection events
\* Messages a server can send whose type is the name of one of the service's
\* own connection events, and an ordinary one.
StatusMessages ==
    {Message(type) : type \in ConnectionEvents}
    \cup {[Message("type_advice") EXCEPT !.explanation = "A1"]}

StatusNext ==
    \/ HookConnect
    \/ \E s \in Slots : SocketOpen(s)
    \/ \E s \in Slots, wasClean \in BOOLEAN, withError \in BOOLEAN :
           SocketClose(s, wasClean, withError)
    \/ \E s \in Slots, m \in StatusMessages : TurnReceives(s, JsonStringify(m))

StatusSpec == HookInit /\ [][StatusNext]_vars

\* ------------------------------------------- the standalone board in use
\* A handler of PokemonGameBoard has run: the board is as B says, and the
\* service and the hook, which this board does not use, are as they were.
BoardStep(B, op, by, arg) ==
    /\ board' = B
    /\ lastOp' = Op(op, by, NULL, arg, FALSE, "none")
    /\ UNCHANGED <<ws, isConnecting, reconnectAttempts, readyState, closeCode,
                   promise, timers, urlOk, wasOpened, timedOut, deliberate,
                   emitted, sent, escaped, eventHandlers, calls, hook,
                   appended, lastIn, awaited, outstanding>>

\* A card is drawn: handlePlayerAction('draw_card') with the id of the moment.
Draw(B) == [HandlePlayerAction(B, "draw_card", DrawnId(B.draws + 1)) EXCEPT !.draws = @ + 1]

\* An opening of the game: the user draws three cards, then plays Pikachu and
\* the first two cards drawn.  AfterOpening(k) is the board its first k
\* actions lead to, as the handlers compute it.
Opening ==
    <<"draw_card", "draw_card", "draw_card", "pikachu-1", DrawnId(1), DrawnId(2)>>
RECURSIVE AfterOpening(_)
AfterOpening(k) ==
    IF k = 0
    THEN BoardInitial
    ELSE IF Opening[k] = "draw_card"
         THEN Draw(AfterOpening(k - 1))
         ELSE HandlePlayerAction(AfterOpening(k - 1), "play_pokemon", Opening[k])

\* The board after construction or somewhere in the opening, on a page whose
\* service has not been used.
BoardInit ==
    /\ ServiceInit
    /\ urlOk
    /\ AppIdle
    /\ outstanding = 0
    /\ board \in {AfterOpening(k) : k \in 0..Len(Opening)}

\* The user is followed through MaxBoardMoves actions.
Playing == board.moves < MaxBoardMoves
Moved(B, op, arg) == BoardStep([B EXCEPT !.moves = @ + 1], op, "user", arg)

\* The cards of a hand or a bench, as the selection panels list them.
Cards(seq) == {seq[i] : i \in 1..Len(seq)}

\* Draw Card, always enabled.
DrawCard ==
    /\ Playing
    /\ board.draws < MaxDraws
    /\ Moved(Draw(board), "draw_card", DrawnId(board.draws + 1))

\* Play Pokemon, then a card of the hand selection, lines 229-250.
PlayCard(id) ==
    /\ Playing
    /\ id \in Cards(board.hand)
    /\ Moved(HandlePlayerAction(board, "play_pokemon", id), "play_pokemon", id)

\* Retreat, enabled with an active Pokemon and a bench, line 107, then a
\* card of the bench selection.
RetreatTo(id) ==
    /\ Playing
    /\ board.activePokemon # Null
    /\ id \in Cards(board.benchedPokemon)
    /\ Moved(HandlePlayerAction(board, "retreat", id), "retreat", id)

\* Attack, enabled on the child's turn with an active Pokemon, line 106,
\* then one of its attacks.
UseAttack(attack) ==
    /\ Playing
    /\ board.currentTurn = "child"
    /\ board.activePokemon # Null
    /\ attack \in CardAttacks(board.activePokemon)
    /\ Moved(HandlePlayerAction(board, "attack", attack), "attack", attack.name)

\* End Turn, enabled on the child's turn, line 351.
EndTurn ==
    /\ Playing
    /\ board.currentTurn = "child"
    /\ Moved(HandleEndTurn(board), "end_turn", "none")

\* Simulate AI Turn, enabled on the AI's turn while it is not thinking,
\* line 181.
SimulateAI ==
    /\ Playing
    /\ ~(board.aiThinking \/ board.currentTurn # "ai")
    /\ Moved(HandleSimulateAI(board), "simulate_ai", "none")

\* The 2500 ms timer of handleSimulateAI fires.
AITimerFires ==
    /\ board.pending # <<>>
    /\ BoardStep(SimulatedAITurn(board), "ai_turn", "timer", board.pending[1])

\* New Game, always enabled, lines 356-363.
NewGame ==
    /\ Playing
    /\ Moved(HandleResetGame(board), "reset", "none")

BoardNext ==
    \/ DrawCard
    \/ \E id \in DOMAIN CardNames : PlayCard(id)
    \/ \E id \in DOMAIN CardNames : RetreatTo(id)
    \/ \E id \in DOMAIN CardNames : \E attack \in CardAttacks(id) : UseAttack(attack)
    \/ EndTurn
    \/ SimulateAI
    \/ AITimerFires
    \/ NewGame

BoardSpec == BoardInit /\ [][BoardNext]_vars

\* ------------------------------------------------------ the log at length
\* The n-th entry a server causes carries the text n, so that every entry of
\* the log can be told from every other.
LogFrames(n) ==
    {JsonStringify([Message("type_advice") EXCEPT !.explanation = ToString(n)]),
     JsonStringify([Message("ai_decision_made") EXCEPT
                       !.game_state = "G1",
                       !.ai_decision = Decision(ToString(n), ToString(n), ToString(n))])}

\* A numbered frame reaches the hook, until the log has been given
\* MaxAppends entries.
LogReceives(s, data) ==
    /\ Len(appended) < MaxAppends
    /\ InboundFrame(s, data)

\* The hook connects and receives advice and decisions.
LogNext ==
    \/ HookConnect
    \/ \E s \in Slots : SocketOpen(s)
    \/ \E s \in Slots, data \in LogFrames(Len(appended)) : LogReceives(s, data)

LogSpec == HookInit /\ [][LogNext]_vars

\* ------------------------------------------------- vocabulary of the claims
\* Sockets of the instance that are connecting or open.
LiveSockets == {s \in Slots : readyState[s] \in {"CONNECTING", "OPEN"}}

\* A connect() attempt that has neither opened, failed nor timed out.
PendingAttempt(s) ==
    readyState[s] = "CONNECTING" /\ promise[s] = "pending" /\ HasTimeout(timers, s)

ReconnectTimers(T) == {i \in 1..Len(T) : T[i].kind = "reconnect"}

HasEmitted(type) == \E i \in 1..Len(emitted) : emitted[i].type = type

\* The step taken is a close event of a socket (with or without error before).
CloseEvent(op) == op.op \in {"fail", "close"}

\* The step taken armed exactly one reconnect timer, for the new counter value.
ArmedOne ==
    /\ reconnectAttempts' = reconnectAttempts + 1
    /\ timers' = Append(timers, [kind |-> "reconnect",
                                 delay |-> ReconnectStepMs * reconnectAttempts',
                                 sock |-> NULL])
    /\ ReconnectStepMs * reconnectAttempts' > ReconnectStepMs * reconnectAttempts

ArmedNone ==
    /\ reconnectAttempts' = reconnectAttempts
    /\ timers' = timers

\* ------------------------------------------------------------------ C1
\* C1 (as claimed): in every reachable state at most one socket created by
\* the instance is connecting or open.
C1_AtMostOneLiveSocket == Cardinality(LiveSockets) <= 1

\* ------------------------------------------------------------------ C2
\* C2 (as claimed): a connect() call made while an earlier attempt is still
\* pending, or while a socket is open, returns early and creates no socket.
C2_ConnectWhilePendingOpensNothing ==
    [][(/\ lastOp'.op = "connect"
        /\ \E s \in Slots : PendingAttempt(s) \/ readyState[s] = "OPEN")
       => lastOp'.outcome = "early"]_vars

\* ------------------------------------------------------------------ C3
\* C3: on each close event a reconnection is scheduled if and only if the
\* close is unclean and the counter is below 5; then the counter grows by
\* one and exactly one timer with delay 2000 ms times the new counter is
\* armed (so the delays of consecutive failures strictly increase);
\* otherwise no timer is armed and the counter is unchanged.
C3_ReconnectOnUncleanCloseBelowMax ==
    [][CloseEvent(lastOp') =>
          IF ~lastOp'.wasClean /\ reconnectAttempts < maxReconnectAttempts
          THEN ArmedOne
          ELSE ArmedNone]_vars

\* A third consecutive failure has just armed the 6000 ms timer.
C3_Witness ==
    /\ CloseEvent(lastOp)
    /\ ~lastOp.wasClean
    /\ reconnectAttempts = 3
    /\ Len(timers) > 0
    /\ timers[Len(timers)] = [kind |-> "reconnect", delay |-> 6000, sock |-> NULL]

\* ------------------------------------------------------------------ C4
\* C4: the reconnect counter is always between 0 and 5; a close event that
\* finds it at 5 arms no timer and leaves it at 5; and once the budget is
\* exhausted (counter 5, no reconnect timer pending, no attempt in flight)
\* the service stays exhausted and disconnected until connect() is called,
\* and a socket is created only by a caller's connect().
BudgetExhausted ==
    /\ reconnectAttempts = maxReconnectAttempts
    /\ ReconnectTimers(timers) = {}
    /\ \A s \in Slots : readyState[s] # "CONNECTING"

C4_CounterBoundedAndExhaustionFinal ==
    /\ reconnectAttempts \in 0..maxReconnectAttempts
    /\ [][/\ reconnectAttempts' \in 0..maxReconnectAttempts
          /\ (CloseEvent(lastOp') /\ reconnectAttempts = maxReconnectAttempts) => ArmedNone
          /\ (BudgetExhausted /\ ~Connected /\ lastOp'.op # "connect")
                => (BudgetExhausted' /\ ~Connected')
          /\ (BudgetExhausted /\ lastOp'.outcome = "created") => lastOp'.by = "caller"]_vars

\* A socket failed with the counter at 5 and nothing was scheduled.
C4_Witness ==
    /\ lastOp.op = "fail"
    /\ reconnectAttempts = maxReconnectAttempts
    /\ ReconnectTimers(timers) = {}
    /\ LiveSockets = {}

\* ------------------------------------------------------------------ C5
\* C5 (as claimed): after a deliberate disconnect() no socket is created
\* automatically (by a reconnect timer) until a caller connects again.
C5_NoAutomaticConnectAfterDisconnect ==
    ~(deliberate /\ lastOp.op = "connect" /\ lastOp.by = "timer" /\ lastOp.outcome = "created")

\* ------------------------------------------------------------------ C6
\* C6 (as claimed): a connection attempt that fails before its socket ever
\* opened schedules no automatic reconnection.
C6_FailureBeforeOpenSchedulesNothing ==
    [][lastOp'.op = "fail" => ReconnectTimers(timers') = ReconnectTimers(timers)]_vars

\* C6 (amended): a connection attempt that fails before its socket ever
\* opened leaves the session disconnected (handle null, nothing in flight),
\* and its close, being unclean, triggers the reconnect policy like the
\* unclean close of a socket that had opened: one reconnect timer is armed
\* when the counter is below 5, none when it is 5.
C6_FailureBeforeOpenFollowsReconnectPolicy ==
    [][lastOp'.op = "fail" =>
          /\ ~wasOpened[lastOp'.sock]
          /\ ws' = NULL
          /\ ~isConnecting'
          /\ IF reconnectAttempts < maxReconnectAttempts THEN ArmedOne ELSE ArmedNone]_vars

\* The first attempt of an instance failed without opening and armed the
\* 2000 ms reconnect timer.
C6_Witness ==
    /\ lastOp.op = "fail"
    /\ reconnectAttempts = 1
    /\ ws = NULL
    /\ \E i \in ReconnectTimers(timers) : timers[i].delay = ReconnectStepMs

C8_TimedOutSocketNeverOpens ==
    \A s \in Slots : timedOut[s] => readyState[s] # "OPEN"

\* ------------------------------------------------------------------ C9
\* C9 (as claimed): every failed connection attempt (socket error, timeout,
\* exception while creating the socket) emits an 'error' event and rejects
\* the promise of its connect() call.
FailedAttempt(op) ==
    \/ op.op = "fail"
    \/ (op.op = "timeout" /\ op.settled = "rejected")
    \/ op.outcome = "threw"

C9_FailureEmitsErrorAndRejects ==
    FailedAttempt(lastOp) => HasEmitted("error")

\* ----------------------------------------------------------------- C10
\* C10 (as claimed): whenever a promise returned by connect() resolves, the
\* service's socket is open at that moment.
C10_ResolvedImpliesSocketOpen ==
    lastOp.settled = "resolved" => (ws # NULL /\ readyState[ws] = "OPEN")

\* C10 (amended): the promise of a connect() call that created a socket is
\* released only when that socket opens (it resolves, and the socket is OPEN
\* at that moment), when the socket's error event fires or when its timeout
\* elapses (it rejects); a connect() call that returns early because an
\* attempt is in flight or the socket is open resolves at once.
C10_CreatedPromiseSettlesOnOpenErrorOrTimeout ==
    /\ \A s \in Slots : promise[s] = "resolved" => wasOpened[s]
    /\ [][/\ \A s \in Slots :
                (promise[s] = "pending" /\ promise'[s] # "pending") =>
                    /\ lastOp'.sock = s
                    /\ \/ /\ lastOp'.op = "open"
                          /\ lastOp'.settled = "resolved"
                          /\ promise'[s] = "resolved"
                          /\ readyState'[s] = "OPEN"
                       \/ /\ lastOp'.op \in {"fail", "timeout"}
                          /\ lastOp'.settled = "rejected"
          /\ \A s \in Slots : promise'[s] = "resolved" => wasOpened'[s]
          /\ (lastOp'.op = "connect" /\ lastOp'.settled = "resolved")
                => (lastOp'.outcome = "early" /\ ConnectReturnsEarly(Svc))]_vars

\* A socket has just opened and resolved the promise of the call that made it.
C10_Witness ==
    /\ lastOp.op = "open"
    /\ lastOp.settled = "resolved"
    /\ promise[lastOp.sock] = "resolved"
    /\ readyState[lastOp.sock] = "OPEN"

\* ----------------------------------------------------------------- C11
\* C11 (as claimed): when a socket opens, the reconnect counter is 0, the
\* in-flight flag is cleared, exactly one 'connected' event (for that socket)
\* has been emitted, and the promise of the connect() call that created the
\* socket is resolved.
C11_OpenResetsEmitsAndResolves ==
    lastOp.op = "open" =>
        /\ reconnectAttempts = 0
        /\ ~isConnecting
        /\ emitted = <<[type |-> "connected", sock |-> lastOp.sock]>>
        /\ promise[lastOp.sock] = "resolved"

Tagged(type, hs) == [i \in 1..Len(hs) |-> <<type, hs[i]>>]

\* The type of the message the step has just dispatched.
Dispatched == lastIn'.msg.type

\* C13: when a parsed message of type T is dispatched, each handler
\* registered for T is invoked exactly once, in registration order, then
\* each handler registered for 'message' exactly once, in registration
\* order, and no other handler is invoked.
C13_TypedThenWildcardEachOnce ==
    [][lastIn'.kind = "message" =>
         calls' = IF Dispatched = Wildcard
                  THEN Tagged(Wildcard, eventHandlers[Wildcard])
                  ELSE Tagged(Dispatched, eventHandlers[Dispatched])
                       \o Tagged(Wildcard, eventHandlers[Wildcard])]_vars

\* ----------------------------------------------------------------- C14
\* A handler that throws is registered for the event type.
HasThrower(type) == \E i \in 1..Len(eventHandlers[type]) : eventHandlers[type][i] = "thrower"

\* C14: when a handler throws during a dispatch, the handlers registered
\* after it for the same event and all wildcard handlers are still invoked,
\* and no exception leaves the socket callback; this holds for the dispatch
\* of a message and for the 'connected' event of onopen.
C14_ThrowingHandlerIsIsolated ==
    [][/\ (lastIn'.kind = "message" /\ (HasThrower(Dispatched) \/ HasThrower(Wildcard))) =>
            /\ calls' = Tagged(Dispatched, eventHandlers[Dispatched])
                        \o Tagged(Wildcard, eventHandlers[Wildcard])
            /\ ~escaped'
       /\ (lastOp'.op = "open" /\ HasThrower("connected")) =>
            /\ calls' = Tagged("connected", eventHandlers["connected"])
            /\ ~escaped']_vars

\* A type_advice message has just been dispatched to a handler that threw,
\* to the handler registered after it, and to a wildcard handler.
C14_Witness ==
    /\ lastIn.kind = "message"
    /\ lastIn.msg.type = "type_advice"
    /\ calls = << <<"type_advice", "thrower">>, <<"type_advice", "first">>,
                  <<Wildcard, "second">> >>
    /\ ~escaped

\* ----------------------------------------------------------------- C15
\* The fields of the service: its handle, flags, counter, sockets and timers.
ServiceState ==
    <<ws, isConnecting, reconnectAttempts, readyState, closeCode, promise,
      timers>>

\* C15: a frame that is no JSON invokes no handler and changes neither the
\* service nor the hook nor the registry, and throws nothing; a message that
\* arrives right after it is dispatched to the handlers of its type.
C15_MalformedFrameIsDropped ==
    [][/\ lastIn'.kind = "garbage" =>
            /\ calls' = <<>>
            /\ hook' = hook
            /\ eventHandlers' = eventHandlers
            /\ UNCHANGED ServiceState
            /\ emitted' = <<>>
            /\ ~escaped'
       /\ (lastIn'.kind = "message" /\ lastIn'.after = "garbage") =>
            /\ calls' = Tagged(Dispatched, eventHandlers[Dispatched])
                        \o Tagged(Wildcard, eventHandlers[Wildcard])
            /\ calls' # <<>>]_vars

\* A game_state_update that arrived right after a malformed frame has been
\* handled by the hook.
C15_Witness ==
    /\ lastIn.kind = "message"
    /\ lastIn.after = "garbage"
    /\ lastIn.msg.type = "game_state_update"
    /\ calls = << <<"game_state_update", "hook">> >>
    /\ hook.gameState = "G1"

\* ----------------------------------------------------------------- C16
\* The message type the protocol assigns to each sending method.
C16_TypeOf ==
    [simulateAITurn |-> "simulate_ai_turn", sendPlayerAction |-> "player_action",
     requestGameState |-> "get_game_state", resetGame |-> "reset_game",
     requestTypeAdvice |-> "get_type_advice"]

\* C16: each of the five sending methods transmits exactly one message, of
\* its own type, on the handle's socket when that socket is open; when there
\* is no socket or it is connecting or closing, the call transmits nothing,
\* throws nothing and changes nothing in the service.
C16_SendsOneMessageOnlyWhenOpen ==
    [][lastOp'.op = "send" =>
         /\ ~escaped'
         /\ UNCHANGED ServiceState
         /\ IF ws # NULL /\ readyState[ws] = "OPEN"
            THEN /\ Len(sent') = 1
                 /\ sent'[1].sock = ws
                 /\ JsonParse(sent'[1].data).ok
                 /\ JsonParse(sent'[1].data).value.type
                        = C16_TypeOf[lastOp'.outcome]
            ELSE sent' = <<>>]_vars

\* requestTypeAdvice has just been called while the socket was still
\* connecting: nothing was transmitted and nothing thrown.
C16_Witness ==
    /\ lastOp.op = "send"
    /\ lastOp.outcome = "requestTypeAdvice"
    /\ ws # NULL
    /\ readyState[ws] = "CONNECTING"
    /\ sent = <<>>
    /\ ~escaped

\* ----------------------------------------------------------------- C17
\* The message types that carry a snapshot of the game.
SnapshotTypes ==
    {"game_state_update", "ai_decision_made", "player_action_result", "game_reset"}

\* C17: a step that processes a snapshot-carrying message makes gameState
\* equal to that message's game_state; every other step (any other message,
\* a malformed frame, a connection event, a call) leaves gameState as it was.
C17_GameStateIsLatestSnapshot ==
    [][IF lastIn'.kind = "message" /\ Dispatched \in SnapshotTypes
       THEN hook'.gameState = lastIn'.msg.game_state
       ELSE hook'.gameState = hook.gameState]_vars

\* An ai_decision_made carrying G2 has replaced the snapshot G1 installed by
\* the message before it.
C17_Witness ==
    /\ lastIn.kind = "message"
    /\ lastIn.after = "message"
    /\ lastIn.msg.type = "ai_decision_made"
    /\ appended = ResetLog \o <<Line("AI Decision: ", "E1")>>
    /\ hook.gameState = "G2"

\* ----------------------------------------------------------------- C18
\* Capacity of the log, usePokemonGame.tsx line 122.
LogCapacity == 20

\* C18: the log never holds more than 20 entries and always equals the last
\* 20 of the entries it was given, in arrival order (all of them while there
\* are at most 20).
C18_LogHoldsLastTwenty ==
    /\ Len(hook.gameLog) <= LogCapacity
    /\ hook.gameLog = SliceLast(appended, LogCapacity)

\* The log has been given more than 22 entries: it holds 20, the oldest
\* ones are gone and the newest is at the end.
C18_Witness ==
    /\ Len(appended) > LogCapacity + 2
    /\ Len(hook.gameLog) = LogCapacity
    /\ hook.gameLog[1] = appended[Len(appended) - LogCapacity + 1]
    /\ hook.gameLog[LogCapacity] = appended[Len(appended)]
    /\ \A i \in 1..LogCapacity : hook.gameLog[i] \notin {InitialLog[1], InitialLog[2]}

\* ----------------------------------------------------------------- C19
\* The lines a decision adds to the log: its explanation, then its lesson,
\* then its insight, the latter two when the decision has a non-empty one.
DecisionLines(d) ==
    <<Line("AI Decision: ", d.explanation)>>
    \o (IF d.type_lesson \in {Undefined, ""} THEN <<>>
        ELSE <<Line("Lesson: ", d.type_lesson)>>)
    \o (IF d.strategic_insight \in {Undefined, ""} THEN <<>>
        ELSE <<Line("Insight: ", d.strategic_insight)>>)

\* C19: processing ai_thinking_started sets aiThinking and clears aiDecision;
\* processing ai_decision_made clears aiThinking, stores the message's
\* ai_decision and game_state, and appends to the log the explanation line,
\* then the lesson line if any, then the insight line if any.
C19_ThinkingThenDecision ==
    [][/\ (lastIn'.kind = "message" /\ Dispatched = "ai_thinking_started") =>
            /\ hook'.aiThinking
            /\ hook'.aiDecision = NoDecision(Null)
       /\ (lastIn'.kind = "message" /\ Dispatched = "ai_decision_made") =>
            /\ ~hook'.aiThinking
            /\ hook'.aiDecision = lastIn'.msg.ai_decision
            /\ hook'.gameState = lastIn'.msg.game_state
            /\ appended' = appended \o DecisionLines(lastIn'.msg.ai_decision)
            /\ hook'.gameLog =
                  SliceLast(hook.gameLog \o DecisionLines(lastIn'.msg.ai_decision),
                            LogCapacity)]_vars

\* After a reset, ai_thinking_started and then an ai_decision_made with a
\* lesson and an insight have been processed.
C19_Witness ==
    /\ lastIn.kind = "message"
    /\ lastIn.msg.type = "ai_decision_made"
    /\ ~hook.aiThinking
    /\ hook.aiDecision = Decision("E2", "L2", "S2")
    /\ hook.gameLog = ResetLog \o <<Line("", "T1"), Line("AI Decision: ", "E2"),
                                   Line("Lesson: ", "L2"), Line("Insight: ", "S2")>>

\* ----------------------------------------------------------------- C20
\* C20: processing ai_error clears aiThinking and appends exactly one entry,
\* the failure line, and leaves gameState, aiDecision and the connection
\* status as they were.
C20_AiErrorClearsThinkingOnly ==
    [][(lastIn'.kind = "message" /\ Dispatched = "ai_error") =>
         /\ ~hook'.aiThinking
         /\ appended' = Append(appended, Line("AI Error: ", lastIn'.msg.message))
         /\ hook'.gameLog =
               SliceLast(Append(hook.gameLog, Line("AI Error: ", lastIn'.msg.message)),
                         LogCapacity)
         /\ hook'.gameState = hook.gameState
         /\ hook'.aiDecision = hook.aiDecision
         /\ hook'.isConnected = hook.isConnected
         /\ hook'.isConnecting = hook.isConnecting
         /\ hook'.connectionError = hook.connectionError]_vars

\* ai_error has been processed on a connected hook while a decision was on
\* display: the flag is clear, the decision and the snapshot are still there.
C20_Witness ==
    /\ lastIn.kind = "message"
    /\ lastIn.msg.type = "ai_error"
    /\ ~hook.aiThinking
    /\ hook.aiDecision = Decision("E1", Undefined, Undefined)
    /\ hook.gameState = "G2"
    /\ hook.isConnected

\* ----------------------------------------------------------------- C21
\* C21: processing game_reset replaces the log: afterwards it consists
\* exactly of the restart narrative the message carries, and no entry it
\* held before is left.
C21_ResetInstallsServerNarrative ==
    [][(lastIn'.kind = "message" /\ Dispatched = "game_reset") =>
         hook'.gameLog = <<Line("", lastIn'.msg.message)>>]_vars

\* ----------------------------------------------------------------- C22
\* C22: the hook's connection status is exactly one of disconnected,
\* connecting and connected: isConnected and isConnecting are never both
\* true.
C22_StatusIsOneOfThree == ~(hook.isConnected /\ hook.isConnecting)

\* ----------------------------------------------------------------- C23
\* C23: the gating of the Simulate AI Turn button enforces single-flight:
\* at most one simulate_ai_turn request is sent and not yet answered by
\* ai_decision_made or ai_error.
C23_AtMostOneOutstanding == outstanding <= 1

\* ----------------------------------------------------------------- C24
\* C24: while the most recently created socket is the open connection, the
\* close or error event of another, earlier socket leaves the service's view
\* of the connection alone: this.ws still refers to the open socket and
\* isConnected() is still true, so send() still transmits on it.
C24_EarlierSocketEventsLeaveConnection ==
    [][(Connected /\ CloseEvent(lastOp') /\ lastOp'.sock # ws) =>
         (ws' = ws /\ Connected')]_vars

\* ----------------------------------------------------------------- C25
\* C25: the 10 s timer of an attempt that has already succeeded or failed
\* leaves a later attempt that is in flight marked in flight: when it fires
\* while isConnecting is true, isConnecting stays true.
C25_TimeoutAffectsOwnAttemptOnly ==
    [][(/\ lastOp'.op = "timeout"
        /\ promise[lastOp'.sock] # "pending"
        /\ isConnecting)
       => isConnecting']_vars

\* ----------------------------------------------------------------- C26
\* C26: once the hook has processed a 'disconnected' event or a game_reset
\* message, aiThinking is false.
C26_ThinkingEndsWithConnectionOrGame ==
    [][(\/ lastIn'.kind = "message" /\ Dispatched = "game_reset"
        \/ \E i \in 1..Len(emitted') : emitted'[i].type = "disconnected")
       => ~hook'.aiThinking]_vars

\* ----------------------------------------------------------------- C27
\* The registered handlers that do not remove themselves.
Staying(hs) == SelectSeq(hs, LAMBDA h : h # SelfRemoving)

\* C27: when a handler calls off() for itself during a dispatch, every
\* handler that was registered for the event when the dispatch started and
\* has not been removed is still invoked exactly once: the invocations of
\* the handlers that stay are those of the typed list, then of the wildcard
\* list, with none skipped.
C27_RemovalSkipsNoHandler ==
    [][lastIn'.kind = "message" =>
         SelectSeq(calls', LAMBDA c : c[2] # SelfRemoving)
           = Tagged("type_advice", Staying(eventHandlers["type_advice"]))
             \o Tagged(Wildcard, Staying(eventHandlers[Wildcard]))]_vars

\* ----------------------------------------------------------------- C28
\* C28: the dispatch of a parsed inbound message, whatever its type, leaves
\* the hook's isConnected, isConnecting and connectionError as they were.
C28_MessagesLeaveStatusAlone ==
    [][lastIn'.kind = "message" =>
         /\ hook'.isConnected = hook.isConnected
         /\ hook'.isConnecting = hook.isConnecting
         /\ hook'.connectionError = hook.connectionError]_vars

\* ----------------------------------------------------------------- C29
\* C29: in the standalone board the child's bench never holds more than 5
\* cards; play_pokemon with a full bench leaves hand and bench unchanged;
\* retreat never increases the bench length.
C29_BenchHoldsAtMostFive ==
    /\ [](Len(board.benchedPokemon) <= 5)
    /\ [][/\ (lastOp'.op = "play_pokemon" /\ Len(board.benchedPokemon) = 5) =>
               /\ board'.hand = board.hand
               /\ board'.benchedPokemon = board.benchedPokemon
          /\ lastOp'.op = "retreat" =>
               Len(board'.benchedPokemon) <= Len(board.benchedPokemon)]_vars

\* A card of the hand has just been played onto a bench of five: the bench
\* still holds five cards and the card is still in the hand.
C29_Witness ==
    /\ lastOp.op = "play_pokemon"
    /\ Len(board.benchedPokemon) = 5
    /\ lastOp.outcome \in Cards(board.hand)
    /\ lastOp.outcome \notin Cards(board.benchedPokemon)

\* ----------------------------------------------------------------- C30
\* C30: a simulated AI turn that was pending when New Game was pressed does
\* not alter the new game: when its timer fires, turnNumber, currentTurn and
\* the log stay as the reset and the actions after it left them.
C30_ResetOutlivesPendingAITurn ==
    [][(lastOp'.op = "ai_turn" /\ lastOp'.outcome = "outlived a reset") =>
         /\ board'.turnNumber = board.turnNumber
         /\ board'.currentTurn = board.currentTurn
         /\ board'.gameLog = board.gameLog]_vars
====
